---- MODULE Spec2Model ----
(***************************************************************************)
(* Model of app.py: the hours normaliser, the year calculator, the Excel   *)
(* import, the PDF hours table pagination and the Streamlit script run.    *)
(*                                                                         *)
(* Values.  A Python/pandas value is a tagged record:                      *)
(*   [t |-> "num", num, den]  a number, kept as an exact reduced fraction  *)
(*   [t |-> "none"]           None                                         *)
(*   [t |-> "nan"]            a missing cell (NaN)                         *)
(*   [t |-> "str", s]         text, s a sequence of one-character strings  *)
(*   [t |-> "error", e, ...]  a raised exception                           *)
(*   [t |-> "df", columns, rows]  a DataFrame: the ordered column names    *)
(*                            and the rows, each a function on the columns *)
(* Arithmetic is exact (rationals); binary floating point rounding is not  *)
(* modelled.  Numeric text is an optional "-" followed by decimal digits.  *)
(***************************************************************************)
EXTENDS Integers, Sequences, FiniteSets, TLC

VARIABLES
    pc,          \* which specification / phase the state belongs to
    in_df,       \* normalize_hours_df, compute_year: the df argument
    in_ca, in_achats, in_taux, in_coef,   \* compute_year: scalar arguments
    out,         \* result of the last pure call (None before any call)
    xls,         \* the uploaded workbook that is (or, in a run, was) loaded
    pdf,         \* generate_pdf_report: state of the hours table loop
    hours_n, hours_n1,                     \* st.session_state tables
    use_n1,                                \* the N-1 checkbox
    ca_n, achats_n, taux_horaire_n, coef_refact_n,
    ca_n1, achats_n1, taux_horaire_n1, coef_refact_n1,
    res_n, res_n1,                         \* results of the current run
    payload,                               \* build_summary_payload of the run
    copy_clicked,                          \* st.button of the copy, this run
    import_msg   \* None, "success" or the error shown by the run

-----------------------------------------------------------------------------
(* Values *)

None == [t |-> "none"]

NaN == [t |-> "nan"]

Str(s) == [t |-> "str", s |-> s]

Abs(a) == IF a < 0 THEN -a ELSE a

RECURSIVE GCD(_, _)
GCD(a, b) == IF b = 0 THEN a ELSE GCD(b, a % b)

\* a / b as a reduced fraction with a positive denominator (b # 0)
Frac(a, b) ==
    LET g == GCD(Abs(a), Abs(b))
        s == IF b < 0 THEN -1 ELSE 1
    IN  [t |-> "num", num |-> (s * a) \div g, den |-> Abs(b) \div g]

Num(n) == Frac(n, 1)

Zero == Num(0)

IsNum(x) == x.t = "num"

IsError(x) == x.t = "error"

Add(a, b) == Frac(a.num * b.den + b.num * a.den, a.den * b.den)

Sub(a, b) == Frac(a.num * b.den - b.num * a.den, a.den * b.den)

Mul(a, b) == Frac(a.num * b.num, a.den * b.den)

ZeroDivisionError == [t |-> "error", e |-> "ZeroDivisionError"]

\* Python's a / b on floats
TrueDiv(a, b) ==
    IF b.num = 0 THEN ZeroDivisionError
    ELSE Frac(a.num * b.den, a.den * b.num)

Digits == <<"0", "1", "2", "3", "4", "5", "6", "7", "8", "9">>

IsDigit(c) == \E i \in 1..10 : Digits[i] = c

DigitVal(c) == (CHOOSE i \in 1..10 : Digits[i] = c) - 1

RECURSIVE ParseDigits(_, _)
ParseDigits(s, acc) ==
    IF s = <<>> THEN acc
    ELSE ParseDigits(Tail(s), 10 * acc + DigitVal(Head(s)))

AllDigits(s) == s # <<>> /\ \A i \in 1..Len(s) : IsDigit(s[i])

\* is the text a number: optional sign, then digits
IsNumericText(s) ==
    IF s # <<>> /\ Head(s) = "-" THEN AllDigits(Tail(s)) ELSE AllDigits(s)

ParseText(s) ==
    IF Head(s) = "-" THEN Num(-ParseDigits(Tail(s), 0))
    ELSE Num(ParseDigits(s, 0))

RECURSIVE NatToText(_)
NatToText(n) ==
    IF n < 10 THEN <<Digits[n + 1]>>
    ELSE NatToText(n \div 10) \o <<Digits[(n % 10) + 1]>>

RECURSIVE FracDigits(_, _, _)
FracDigits(r, d, k) ==
    IF r = 0 \/ k = 0 THEN <<>>
    ELSE <<Digits[((r * 10) \div d) + 1]>> \o FracDigits((r * 10) % d, d, k - 1)

MaxFracDigits == 6

\* str() of a number: integers as digits, other values in decimal notation
NumToText(x) ==
    LET a == Abs(x.num)
        sign == IF x.num < 0 THEN <<"-">> ELSE <<>>
        int == NatToText(a \div x.den)
    IN  IF x.den = 1 THEN sign \o int
        ELSE sign \o int \o <<".">> \o FracDigits(a % x.den, x.den, MaxFracDigits)

\* Python truthiness of a scalar
Truthy(x) ==
    CASE x.t = "none" -> FALSE
      [] x.t = "num" -> x.num # 0
      [] x.t = "str" -> x.s # <<>>
      [] OTHER -> TRUE

ValueError(s) == [t |-> "error", e |-> "ValueError", arg |-> s]

TypeError == [t |-> "error", e |-> "TypeError"]

\* float(x)
PyFloat(x) ==
    CASE x.t = "num" -> x
      [] x.t = "nan" -> x
      [] x.t = "str" -> IF IsNumericText(x.s) THEN ParseText(x.s) ELSE ValueError(x.s)
      [] OTHER -> TypeError

-----------------------------------------------------------------------------
(* Utils *)

safe_div(a, b) == IF b # None /\ b # Zero THEN TrueDiv(a, b) ELSE Zero

REQUIRED_COLS == <<"Personne", "Heures", "Coef_production">>

Range(s) == {s[i] : i \in 1..Len(s)}

DataFrame(columns, rows) == [t |-> "df", columns |-> columns, rows |-> rows]

\* df.empty: one of the axes has length 0
Empty(df) == Len(df.rows) = 0 \/ Len(df.columns) = 0

PlaceholderDf ==
    DataFrame(REQUIRED_COLS,
              << [c \in Range(REQUIRED_COLS) |->
                     IF c = "Personne" THEN Str(<<>>) ELSE Zero] >>)

\* out[col] = default, for a column that is not in out.columns
WithColumn(df, col, default) ==
    IF col \in Range(df.columns) THEN df
    ELSE DataFrame(Append(df.columns, col),
                   [i \in 1..Len(df.rows) |->
                       [c \in Range(df.columns) \cup {col} |->
                           IF c = col THEN default ELSE df.rows[i][c]]])

\* lines 45-47
EnsureColumns(df) ==
    WithColumn(WithColumn(WithColumn(df, "Personne", Str(<<>>)),
                          "Heures", Zero),
               "Coef_production", Zero)

\* Series.astype(str) on one cell: str() of the value, a missing cell included
AsTypeStr(x) ==
    CASE x.t = "str" -> x
      [] x.t = "num" -> Str(NumToText(x))
      [] x.t = "nan" -> Str(<<"n", "a", "n">>)
      [] OTHER -> Str(<<"N", "o", "n", "e">>)

\* Series.fillna(v) on one cell
FillNa(x, v) == IF x.t \in {"nan", "none"} THEN v ELSE x

\* pd.to_numeric(errors="coerce") on one cell
ToNumericCoerce(x) ==
    CASE x.t = "num" -> x
      [] x.t = "str" -> IF IsNumericText(x.s) THEN ParseText(x.s) ELSE NaN
      [] OTHER -> NaN

\* line 49
PersonneCell(x) == FillNa(AsTypeStr(x), Str(<<>>))

\* lines 50, 51
NumericCell(x) == FillNa(ToNumericCoerce(x), Zero)

\* the coefficient forgotten
HeuresFacturables_NoCoef(heures, coef) == heures

\* line 53
HeuresFacturables(heures, coef) == Mul(heures, coef)

OUT_COLS == <<"Personne", "Heures", "Coef_production", "Heures_facturables">>

NormalizeRow(r) ==
    LET h == NumericCell(r["Heures"])
        k == NumericCell(r["Coef_production"])
    IN  [c \in Range(OUT_COLS) |->
            CASE c = "Personne" -> PersonneCell(r["Personne"])
              [] c = "Heures" -> h
              [] c = "Coef_production" -> k
              [] OTHER -> HeuresFacturables(h, k)]

\* only None replaced, an empty table kept
SourceDf_NoEmptyCheck(df) == IF df = None THEN PlaceholderDf ELSE df

\* lines 41-42
SourceDf(df) == IF df = None \/ Empty(df) THEN PlaceholderDf ELSE df

normalize_hours_df(df) ==
    LET src == SourceDf(df)
        full == EnsureColumns(src)
    IN  DataFrame(OUT_COLS, [i \in 1..Len(full.rows) |-> NormalizeRow(full.rows[i])])

\* the first row taken for the total
SumCol_First(rows, col) == IF rows = <<>> THEN Zero ELSE rows[1][col]

\* Series.sum() of a numeric column, lines 66-67
RECURSIVE SumCol(_, _)
SumCol(rows, col) ==
    IF rows = <<>> THEN Zero
    ELSE Add(rows[1][col], SumCol(Tail(rows), col))

\* float(x or 0.0), lines 57-60
FloatOrZero(x) == PyFloat(IF Truthy(x) THEN x ELSE Zero)

\* the rate divided without the zero guard
RateOf_Unguarded(a, ca) == TrueDiv(a, ca)

\* line 63 and line 74
RateOf(a, ca) == IF Truthy(ca) THEN safe_div(a, ca) ELSE Zero

compute_year(ca0, achats0, df_hours, taux_horaire0, coef_refact0) ==
    LET ca == FloatOrZero(ca0)
        achats == FloatOrZero(achats0)
        taux_horaire == FloatOrZero(taux_horaire0)
        coef_refact == FloatOrZero(coef_refact0)
        marge == Sub(ca, achats)
        dfh == normalize_hours_df(df_hours)
        heures == SumCol(dfh.rows, "Heures")
        heures_fact == SumCol(dfh.rows, "Heures_facturables")
        ca_theo_achats == Mul(achats, coef_refact)
        ca_theo_heures == Mul(heures_fact, taux_horaire)
        ca_theo_total == Add(ca_theo_achats, ca_theo_heures)
        ecart == Sub(ca, ca_theo_total)
    IN  CASE IsError(ca) -> ca
          [] IsError(achats) -> achats
          [] IsError(taux_horaire) -> taux_horaire
          [] IsError(coef_refact) -> coef_refact
          [] OTHER ->
               [t |-> "res",
                marge |-> marge,
                tx_marge |-> RateOf(marge, ca),
                dfh |-> dfh,
                heures |-> heures,
                heures_fact |-> heures_fact,
                ca_theo_achats |-> ca_theo_achats,
                ca_theo_heures |-> ca_theo_heures,
                ca_theo_total |-> ca_theo_total,
                ecart |-> ecart,
                ecart_pct |-> RateOf(ecart, ca)]

-----------------------------------------------------------------------------
(* Variable groups; a specification leaves the groups it does not use idle *)

calcVars == <<in_df, in_ca, in_achats, in_taux, in_coef, out>>

sessionVars == <<hours_n, hours_n1, use_n1, ca_n, achats_n, taux_horaire_n,
                 coef_refact_n, ca_n1, achats_n1, taux_horaire_n1,
                 coef_refact_n1, res_n, res_n1, payload, copy_clicked,
                 import_msg>>

vars == <<pc, calcVars, xls, pdf, sessionVars>>

IdleCalc ==
    /\ in_df = None /\ in_ca = None /\ in_achats = None
    /\ in_taux = None /\ in_coef = None /\ out = None

IdleSession ==
    /\ hours_n = None /\ hours_n1 = None /\ use_n1 = FALSE
    /\ ca_n = None /\ achats_n = None /\ taux_horaire_n = None
    /\ coef_refact_n = None /\ ca_n1 = None /\ achats_n1 = None
    /\ taux_horaire_n1 = None /\ coef_refact_n1 = None
    /\ res_n = None /\ res_n1 = None /\ payload = None /\ import_msg = None
    /\ copy_clicked = FALSE

-----------------------------------------------------------------------------
(* Bounded inputs of the pure functions *)

MaxRows == 2

RECURSIVE SeqsUpTo(_, _)
SeqsUpTo(S, n) ==
    IF n = 0 THEN {<<>>}
    ELSE LET shorter == SeqsUpTo(S, n - 1)
         IN  shorter \cup {Append(s, x) : s \in {q \in shorter : Len(q) = n - 1}, x \in S}

\* raw cells: text, a missing cell, a number, None, numeric text
PersonneCells == {Str(<<"A">>), NaN, Num(7)}

HeuresCells == {Num(2), Str(<<"x">>), None}

CoefCells == {Frac(3, 4), NaN, Str(<<"1", "2">>)}

\* a raw row over four columns; the supplied Heures_facturables is bogus
RawRows ==
    {[c \in Range(OUT_COLS) |->
        CASE c = "Personne" -> p
          [] c = "Heures" -> h
          [] c = "Coef_production" -> k
          [] OTHER -> Num(99)] : p \in PersonneCells, h \in HeuresCells, k \in CoefCells}

\* the columns a raw table may come with
ColumnChoices ==
    {OUT_COLS, REQUIRED_COLS, <<"Personne", "Coef_production">>, <<"Heures">>}

Project(rows, columns) ==
    [i \in 1..Len(rows) |-> [c \in Range(columns) |-> rows[i][c]]]

NormInputs ==
    {None} \cup
    {DataFrame(cols, Project(rows, cols)) :
        cols \in ColumnChoices, rows \in SeqsUpTo(RawRows, MaxRows)}

InitNorm ==
    /\ pc = "norm_in"
    /\ in_df \in NormInputs
    /\ in_ca = None /\ in_achats = None /\ in_taux = None /\ in_coef = None
    /\ out = None
    /\ xls = None /\ pdf = None
    /\ IdleSession

CallNormalize ==
    /\ pc = "norm_in"
    /\ out' = normalize_hours_df(in_df)
    /\ pc' = "norm_out"
    /\ UNCHANGED <<in_df, in_ca, in_achats, in_taux, in_coef, xls, pdf, sessionVars>>

NextNorm == CallNormalize

SpecNorm == InitNorm /\ [][NextNorm]_vars

-----------------------------------------------------------------------------
(* compute_year on bounded inputs *)

CalcRows ==
    {[c \in Range(REQUIRED_COLS) |->
        CASE c = "Personne" -> r[1] [] c = "Heures" -> r[2] [] OTHER -> r[3]] :
     r \in {<<Str(<<"A">>), Num(140), Frac(3, 4)>>,
            <<Str(<<"B">>), Num(152), Frac(7, 10)>>,
            <<NaN, Str(<<"x">>), Num(2)>>}}

CalcTables ==
    {None} \cup {DataFrame(REQUIRED_COLS, rows) : rows \in SeqsUpTo(CalcRows, MaxRows)}

\* revenue: missing, zero, a number, text, empty text, numeric text
CaVals == {None, Num(0), Num(1000), Str(<<"a">>), Str(<<>>), Str(<<"5", "0">>)}

AchatsVals == {None, Num(400), Str(<<"a">>)}

TauxVals == {None, Num(55), Str(<<"a">>)}

CoefVals == {None, Frac(23, 20), Str(<<"a">>)}

InitCalc ==
    /\ pc = "calc_in"
    /\ in_df \in CalcTables
    /\ in_ca \in CaVals /\ in_achats \in AchatsVals
    /\ in_taux \in TauxVals /\ in_coef \in CoefVals
    /\ out = None
    /\ xls = None /\ pdf = None
    /\ IdleSession

CallComputeYear ==
    /\ pc = "calc_in"
    /\ out' = compute_year(in_ca, in_achats, in_df, in_taux, in_coef)
    /\ pc' = "calc_out"
    /\ UNCHANGED <<in_df, in_ca, in_achats, in_taux, in_coef, xls, pdf, sessionVars>>

NextCalc == CallComputeYear

SpecCalc == InitCalc /\ [][NextCalc]_vars

\* both pure functions, each on its own inputs
SpecPure == (InitNorm \/ InitCalc) /\ [][NextNorm \/ NextCalc]_vars

-----------------------------------------------------------------------------
(* generate_pdf_report: the cover page, then per year the hours table loop *)

MAX_ROWS_PER_PAGE == 28

MaxPdfRows == 30

MaxPages == 5

Min(a, b) == IF a < b THEN a ELSE b

\* a normalised table of n workers, as found in res["dfh"]
PdfTable(n) ==
    normalize_hours_df(
        DataFrame(REQUIRED_COLS,
                  [i \in 1..n |->
                      [c \in Range(REQUIRED_COLS) |->
                          CASE c = "Personne" -> Str(NatToText(i))
                            [] c = "Heures" -> Num(i)
                            [] OTHER -> Num(1)]]))

PdfPayloads ==
    {[use_n1 |-> FALSE, N |-> PdfTable(n), N1 |-> None] : n \in 1..MaxPdfRows}
    \cup {[use_n1 |-> TRUE, N |-> PdfTable(n), N1 |-> PdfTable(m)] :
             n \in {1, MaxPdfRows}, m \in 1..MaxPdfRows}

PdfDfh(p, label) == IF label = "N" THEN p.N ELSE p.N1

\* pdf_draw_table_hours: the rows drawn by one call and the overflow flag; the
\* loop over df_show.iterrows() starts at the first row on every call
pdf_draw_table_hours(dfh, max_rows) ==
    [rows |-> 1..Min(Len(dfh.rows), max_rows),
     overflow |-> Len(dfh.rows) > max_rows]

InitPdf ==
    /\ pc = "pdf"
    /\ \E p \in PdfPayloads :
          pdf = [at |-> "cover", payload |-> p, label |-> "N", pages |-> 0,
                 page_rows |-> 0,
                 drawn |-> [l \in {"N", "N-1"} |->
                               IF l = "N-1" /\ ~p.use_n1 THEN <<>>
                               ELSE [i \in 1..Len(PdfDfh(p, l).rows) |-> 0]]]
    /\ xls = None
    /\ IdleCalc /\ IdleSession

DrawnAfter(call) ==
    [pdf.drawn EXCEPT ![pdf.label] =
        [i \in DOMAIN pdf.drawn[pdf.label] |->
            IF i \in call.rows THEN pdf.drawn[pdf.label][i] + 1
            ELSE pdf.drawn[pdf.label][i]]]

\* cover_page(), then year_page("N") up to the table loop (lines 300-354)
PdfCoverPage ==
    /\ pc = "pdf" /\ pdf.at = "cover"
    /\ pdf' = [pdf EXCEPT !.at = "table", !.label = "N", !.pages = 1]
    /\ UNCHANGED <<calcVars, xls, sessionVars, pc>>

\* one iteration of the while loop that overflows: a new page (lines 355-362)
PdfOverflowPage ==
    /\ pc = "pdf" /\ pdf.at = "table"
    /\ pdf.pages < MaxPages
    /\ LET call == pdf_draw_table_hours(PdfDfh(pdf.payload, pdf.label),
                                        MAX_ROWS_PER_PAGE)
       IN  /\ call.overflow
           /\ pdf' = [pdf EXCEPT !.drawn = DrawnAfter(call),
                                 !.page_rows = Cardinality(call.rows),
                                 !.pages = @ + 1]
    /\ UNCHANGED <<calcVars, xls, sessionVars, pc>>

\* the iteration that does not overflow ends the loop and the year page; then
\* year_page("N-1") when use_n1, else c.save() (lines 355-371)
PdfYearEnd ==
    /\ pc = "pdf" /\ pdf.at = "table"
    /\ LET call == pdf_draw_table_hours(PdfDfh(pdf.payload, pdf.label),
                                        MAX_ROWS_PER_PAGE)
       IN  /\ ~call.overflow
           /\ pdf' = [pdf EXCEPT !.drawn = DrawnAfter(call),
                                 !.page_rows = Cardinality(call.rows),
                                 !.pages = @ + 1,
                                 !.label = "N-1",
                                 !.at = IF pdf.label = "N" /\ pdf.payload.use_n1
                                        THEN "table" ELSE "done"]
    /\ UNCHANGED <<calcVars, xls, sessionVars, pc>>

NextPdf == PdfCoverPage \/ PdfOverflowPage \/ PdfYearEnd

SpecPdf == InitPdf /\ [][NextPdf]_vars

\* C1: generate_pdf_report terminates for any number of rows: at most 28 rows
\* per page, no row drawn twice, and at the end every row drawn exactly once.
C1_EveryRowOnce ==
    pc = "pdf" =>
        /\ pdf.page_rows <= MAX_ROWS_PER_PAGE
        /\ \A l \in {"N", "N-1"} : \A i \in DOMAIN pdf.drawn[l] :
               /\ pdf.drawn[l][i] <= 1
               /\ pdf.at = "done" => pdf.drawn[l][i] = 1

-----------------------------------------------------------------------------
(* Excel import.  A workbook maps sheet names to sheets; a sheet has a header *)
(* row and data rows (sequences of cells aligned with the header).  A header *)
(* cell is its text split into leading blanks, the text without surrounding  *)
(* blanks, and trailing blanks: [lead, word, trail].                         *)

Header(lead, word, trail) == [lead |-> lead, word |-> word, trail |-> trail]

\* str(c).strip()
Strip(c) == c.word

SORTED_COLS == <<"Coef_production", "Heures", "Personne">>

\* sorted(missing)
Sorted(missing) == SelectSeq(SORTED_COLS, LAMBDA c : c \in missing)

IndexOf(seq, x) == CHOOSE i \in 1..Len(seq) : seq[i] = x

\* df[REQUIRED_COLS].copy() of a sheet whose trimmed names are `names`
SelectRequired(names, rows) ==
    DataFrame(REQUIRED_COLS,
              [i \in 1..Len(rows) |->
                  [c \in Range(REQUIRED_COLS) |-> rows[i][IndexOf(names, c)]]])

read_hours_sheet(book, sheet_name) ==
    IF sheet_name \notin DOMAIN book.sheets THEN None
    ELSE LET sheet == book.sheets[sheet_name]
             names == [i \in 1..Len(sheet.columns) |-> Strip(sheet.columns[i])]
             missing == Range(REQUIRED_COLS) \ Range(names)
         IN  IF missing # {}
             THEN ValueError([sheet |-> sheet_name, missing |-> Sorted(missing)])
             ELSE SelectRequired(names, sheet.rows)

\* sheet N-1 required as well
load_hours_from_excel_N1Required(book) ==
    LET df_n == read_hours_sheet(book, "N")
        df_n1 == read_hours_sheet(book, "N-1")
    IN  CASE IsError(df_n) -> df_n
          [] df_n = None -> ValueError("L'onglet 'N' est obligatoire.")
          [] IsError(df_n1) -> df_n1
          [] df_n1 = None -> ValueError("L'onglet 'N-1' est obligatoire.")
          [] OTHER -> [t |-> "ok", df_n |-> df_n, df_n1 |-> df_n1]

load_hours_from_excel(book) ==
    LET df_n == read_hours_sheet(book, "N")
        df_n1 == read_hours_sheet(book, "N-1")
    IN  CASE IsError(df_n) -> df_n
          [] df_n = None -> ValueError("L'onglet 'N' est obligatoire.")
          [] IsError(df_n1) -> df_n1
          [] OTHER -> [t |-> "ok", df_n |-> df_n, df_n1 |-> df_n1]

\* header rows: exact, padded with blanks, reordered with an extra column,
\* one or two required columns missing, none present, near misses
HeaderRows ==
    { <<Header(0, "Personne", 0), Header(0, "Heures", 0), Header(0, "Coef_production", 0)>>,
      <<Header(1, "Personne", 0), Header(0, "Heures", 2), Header(1, "Coef_production", 1)>>,
      <<Header(0, "Note", 0), Header(0, "Coef_production", 0), Header(0, "Heures", 1),
        Header(0, "Personne", 0)>>,
      <<Header(0, "Personne", 0), Header(0, "Heures", 0)>>,
      <<Header(0, "Coef_production", 0), Header(0, "Note", 0)>>,
      <<Header(0, "Note", 0)>>,
      <<Header(0, "Personne", 0), Header(0, "Heures", 0), Header(0, "Coef production", 0)>>,
      <<Header(0, "Personne", 0), Header(0, "heures", 0), Header(0, "Coef_production", 0)>> }

MaxSheetRows == 2

\* the cell of data row i under a header; base tells the sheets apart
SheetCell(word, i, base) ==
    CASE word = "Personne" -> IF i = 2 THEN NaN ELSE Str(<<"A">>)
      [] word \in {"Heures", "heures"} -> Num(base + i)
      [] word \in {"Coef_production", "Coef production"} -> Frac(3, 4)
      [] OTHER -> Str(<<"x">>)

Sheet(header, n, base) ==
    [columns |-> header,
     rows |-> [i \in 1..n |-> [j \in 1..Len(header) |-> SheetCell(header[j].word, i, base)]]]

SheetsOf(base) == {Sheet(h, n, base) : h \in HeaderRows, n \in 0..MaxSheetRows}

Workbook(n, n1) ==
    [sheets |-> [name \in (IF n = None THEN {} ELSE {"N"})
                          \cup (IF n1 = None THEN {} ELSE {"N-1"})
                          \cup {"Notes"} |->
                    CASE name = "N" -> n
                      [] name = "N-1" -> n1
                      [] OTHER -> Sheet(<<Header(0, "Note", 0)>>, 0, 0)]]

Workbooks ==
    {Workbook(n, n1) : n \in SheetsOf(100) \cup {None}, n1 \in SheetsOf(200) \cup {None}}

InitExcel ==
    /\ pc = "xls_in"
    /\ xls \in Workbooks
    /\ pdf = None
    /\ IdleCalc /\ IdleSession

CallLoadHours ==
    /\ pc = "xls_in"
    /\ out' = load_hours_from_excel(xls)
    /\ pc' = "xls_out"
    /\ UNCHANGED <<in_df, in_ca, in_achats, in_taux, in_coef, xls, pdf, sessionVars>>

NextExcel == CallLoadHours

SpecExcel == InitExcel /\ [][NextExcel]_vars

HasSheet(book, name) == name \in DOMAIN book.sheets

\* the required names that no header cell of the sheet carries once trimmed
MissingIn(book, name) ==
    {c \in Range(REQUIRED_COLS) :
        \A j \in 1..Len(book.sheets[name].columns) :
            book.sheets[name].columns[j].word # c}

BadSheet(book, name) == HasSheet(book, name) /\ MissingIn(book, name) # {}

\* C3: load_hours_from_excel fails exactly when sheet N is absent or a present
\* sheet (N or N-1) lacks a required column after trimming; the column error
\* names the sheet and exactly its missing columns; a missing N-1 alone and
\* extra columns are no error.
C3_LoadFailsExactly ==
    pc = "xls_out" =>
        /\ IsError(out) <=> (\/ ~HasSheet(xls, "N")
                             \/ BadSheet(xls, "N")
                             \/ BadSheet(xls, "N-1"))
        /\ ~HasSheet(xls, "N") => out = ValueError("L'onglet 'N' est obligatoire.")
        /\ BadSheet(xls, "N") =>
               /\ out.arg.sheet = "N"
               /\ Range(out.arg.missing) = MissingIn(xls, "N")
               /\ Len(out.arg.missing) = Cardinality(MissingIn(xls, "N"))
        /\ (HasSheet(xls, "N") /\ ~BadSheet(xls, "N") /\ BadSheet(xls, "N-1")) =>
               /\ out.arg.sheet = "N-1"
               /\ Range(out.arg.missing) = MissingIn(xls, "N-1")
               /\ Len(out.arg.missing) = Cardinality(MissingIn(xls, "N-1"))

C3_Witness ==
    /\ pc = "xls_out"
    /\ HasSheet(xls, "N") /\ ~HasSheet(xls, "N-1")
    /\ Len(xls.sheets["N"].columns) = 4
    /\ xls.sheets["N"].columns[3] = Header(0, "Heures", 1)
    /\ Len(xls.sheets["N"].rows) = 2
    /\ out.t = "ok"
    /\ out.df_n1 = None
    /\ out.df_n.columns = REQUIRED_COLS
    /\ out.df_n.rows[2]["Heures"] = Num(102)

-----------------------------------------------------------------------------
(* The Streamlit script.  Every user interaction reruns the whole script:    *)
(* widgets, import handler, editors, copy handler, then the computation and *)
(* the payload.  One action is one run, named after the widget that changed. *)
(* A data_editor returns its input table with the user's edit of that run    *)
(* applied, and the input table itself in a run without an edit.             *)

\* the payload date (dt.date.today()) is left out: no property reads it
\* the flag taken from the request alone
build_summary_payload_FlagOnly(use, ca, achats, taux, coef, res, ca1, achats1, taux1, coef1, res1) ==
    [N |-> [ca |-> ca, achats |-> achats, taux_horaire |-> taux,
            coef_refact |-> coef, res |-> res],
     N1 |-> IF use
            THEN [ca |-> ca1, achats |-> achats1, taux_horaire |-> taux1,
                  coef_refact |-> coef1, res |-> res1]
            ELSE None,
     use_n1 |-> use]

build_summary_payload(use, ca, achats, taux, coef, res, ca1, achats1, taux1, coef1, res1) ==
    LET flag == use /\ res1 # None
    IN  [N |-> [ca |-> ca, achats |-> achats, taux_horaire |-> taux,
                coef_refact |-> coef, res |-> res],
         N1 |-> IF flag
                THEN [ca |-> ca1, achats |-> achats1, taux_horaire |-> taux1,
                      coef_refact |-> coef1, res |-> res1]
                ELSE None,
         use_n1 |-> flag]

Row(p, h, k) ==
    [c \in Range(REQUIRED_COLS) |->
        CASE c = "Personne" -> p [] c = "Heures" -> h [] OTHER -> k]

Ouvrier1 == Str(<<"O", "u", "v", "r", "i", "e", "r", " ", "1">>)

Ouvrier2 == Str(<<"O", "u", "v", "r", "i", "e", "r", " ", "2">>)

\* lines 377-384
DefaultHoursN ==
    DataFrame(REQUIRED_COLS, <<Row(Ouvrier1, Num(140), Frac(75, 100)),
                               Row(Ouvrier2, Num(140), Frac(70, 100))>>)

\* lines 386-393
DefaultHoursN1 ==
    DataFrame(REQUIRED_COLS, <<Row(Ouvrier1, Num(140), Frac(70, 100)),
                               Row(Ouvrier2, Num(140), Frac(68, 100))>>)

\* the values the number inputs start with (lines 406-415, 484-491)
DefaultTauxHoraireN == Num(55)

DefaultCoefRefactN == Frac(115, 100)

DefaultCaN == Num(300000)

DefaultAchatsN == Num(150000)

DefaultTauxHoraireN1 == Num(52)

DefaultCoefRefactN1 == Frac(112, 100)

DefaultCaN1 == Num(280000)

DefaultAchatsN1 == Num(140000)

\* lines 546-549
ResN(ca, achats, hours, taux, coef) == compute_year(ca, achats, hours, taux, coef)

ResN1(use, ca, achats, hours, taux, coef) ==
    IF use /\ ca # None /\ achats # None
    THEN compute_year(ca, achats, hours, taux, coef)
    ELSE None

\* year N-1 computed from the table of year N
Compute_N1FromHoursN ==
    /\ res_n' = ResN(ca_n', achats_n', hours_n', taux_horaire_n', coef_refact_n')
    /\ res_n1' = ResN1(use_n1', ca_n1', achats_n1', hours_n',
                       taux_horaire_n1', coef_refact_n1')
    /\ payload' = build_summary_payload(use_n1', ca_n', achats_n', taux_horaire_n',
                                        coef_refact_n', res_n', ca_n1', achats_n1',
                                        taux_horaire_n1', coef_refact_n1', res_n1')

\* the computation placed before the import, the editors and the copy: it
\* reads the tables the run started with
Compute_BeforeHandlers ==
    /\ res_n' = ResN(ca_n', achats_n', hours_n, taux_horaire_n', coef_refact_n')
    /\ res_n1' = ResN1(use_n1', ca_n1', achats_n1', hours_n1,
                       taux_horaire_n1', coef_refact_n1')
    /\ payload' = build_summary_payload(use_n1', ca_n', achats_n', taux_horaire_n',
                                        coef_refact_n', res_n', ca_n1', achats_n1',
                                        taux_horaire_n1', coef_refact_n1', res_n1')

\* the end of every run: the computation and the payload (lines 546-549, 695-699)
Compute ==
    /\ res_n' = ResN(ca_n', achats_n', hours_n', taux_horaire_n', coef_refact_n')
    /\ res_n1' = ResN1(use_n1', ca_n1', achats_n1', hours_n1',
                       taux_horaire_n1', coef_refact_n1')
    /\ payload' = build_summary_payload(use_n1', ca_n', achats_n', taux_horaire_n',
                                        coef_refact_n', res_n', ca_n1', achats_n1',
                                        taux_horaire_n1', coef_refact_n1', res_n1')

InitSession ==
    /\ pc = "session"
    /\ hours_n = DefaultHoursN
    /\ hours_n1 = DefaultHoursN1
    /\ use_n1 = FALSE
    /\ taux_horaire_n = DefaultTauxHoraireN
    /\ coef_refact_n = DefaultCoefRefactN
    /\ ca_n = DefaultCaN
    /\ achats_n = DefaultAchatsN
    /\ taux_horaire_n1 = None /\ coef_refact_n1 = None
    /\ ca_n1 = None /\ achats_n1 = None
    /\ res_n = ResN(ca_n, achats_n, hours_n, taux_horaire_n, coef_refact_n)
    /\ res_n1 = None
    /\ payload = build_summary_payload(use_n1, ca_n, achats_n, taux_horaire_n,
                                       coef_refact_n, res_n, ca_n1, achats_n1,
                                       taux_horaire_n1, coef_refact_n1, res_n1)
    /\ import_msg = None /\ copy_clicked = FALSE
    /\ xls = None /\ pdf = None
    /\ IdleCalc

otherVars == <<pc, calcVars, pdf>>

tableVars == <<hours_n, hours_n1>>

scalarsN == <<ca_n, achats_n, taux_horaire_n, coef_refact_n>>

scalarsN1 == <<ca_n1, achats_n1, taux_horaire_n1, coef_refact_n1>>

\* values typed into the number inputs (min_value = 0.0)
CaChoices == {DefaultCaN, Num(0)}

\* a number input of year N changes
SetScalarN ==
    /\ pc = "session"
    /\ ca_n' \in CaChoices
    /\ ca_n' # ca_n
    /\ import_msg' = None /\ xls' = None /\ copy_clicked' = FALSE
    /\ UNCHANGED <<achats_n, taux_horaire_n, coef_refact_n, use_n1, scalarsN1, tableVars, otherVars>>
    /\ Compute

\* a number input of year N-1 changes (the inputs exist only while use_n1)
SetScalarN1 ==
    /\ pc = "session" /\ use_n1
    /\ ca_n1' \in {DefaultCaN1, Num(0)}
    /\ ca_n1' # ca_n1
    /\ import_msg' = None /\ xls' = None /\ copy_clicked' = FALSE
    /\ UNCHANGED <<achats_n1, taux_horaire_n1, coef_refact_n1, use_n1, scalarsN,
                   tableVars, otherVars>>
    /\ Compute

\* the checkbox: the N-1 inputs appear with their defaults or disappear
ToggleN1 ==
    /\ pc = "session"
    /\ use_n1' = ~use_n1
    /\ IF use_n1'
       THEN /\ taux_horaire_n1' = DefaultTauxHoraireN1
            /\ coef_refact_n1' = DefaultCoefRefactN1
            /\ ca_n1' = DefaultCaN1
            /\ achats_n1' = DefaultAchatsN1
       ELSE /\ taux_horaire_n1' = None /\ coef_refact_n1' = None
            /\ ca_n1' = None /\ achats_n1' = None
    /\ import_msg' = None /\ xls' = None /\ copy_clicked' = FALSE
    /\ UNCHANGED <<scalarsN, tableVars, otherVars>>
    /\ Compute

\* files the user uploads: N alone, N and N-1, N absent, N-1 invalid, N invalid
ValidHeader ==
    <<Header(0, "Personne", 0), Header(1, "Heures", 0), Header(0, "Coef_production", 0)>>

InvalidHeader == <<Header(0, "Personne", 0), Header(0, "Heures", 0)>>

SessionWorkbooks ==
    { Workbook(Sheet(ValidHeader, 1, 100), None),
      Workbook(Sheet(ValidHeader, 1, 100), Sheet(ValidHeader, 1, 200)),
      Workbook(None, Sheet(ValidHeader, 1, 200)),
      Workbook(Sheet(ValidHeader, 1, 100), Sheet(InvalidHeader, 1, 200)),
      Workbook(Sheet(InvalidHeader, 1, 100), Sheet(ValidHeader, 1, 200)) }

\* the table of sheet N stored before sheet N-1 is read
ImportTables_Partial(book, old_n, old_n1) ==
    LET df_n == read_hours_sheet(book, "N")
        df_n1 == read_hours_sheet(book, "N-1")
    IN  IF df_n = None \/ IsError(df_n) THEN <<old_n, old_n1>>
        ELSE <<df_n, IF df_n1 = None \/ IsError(df_n1) THEN old_n1 ELSE df_n1>>

\* table N taken for N-1 when the file has no sheet N-1
ImportTables_N1DefaultsToN(book, old_n, old_n1) ==
    LET loaded == load_hours_from_excel(book)
    IN  IF IsError(loaded) THEN <<old_n, old_n1>>
        ELSE <<loaded.df_n, IF loaded.df_n1 # None THEN loaded.df_n1 ELSE loaded.df_n>>

\* lines 450-457: the session tables after the try block
ImportTables(book, old_n, old_n1) ==
    LET loaded == load_hours_from_excel(book)
    IN  IF IsError(loaded) THEN <<old_n, old_n1>>
        ELSE <<loaded.df_n, IF loaded.df_n1 # None THEN loaded.df_n1 ELSE old_n1>>

\* lines 455, 457: st.success or st.error
ImportMessage(book) ==
    LET loaded == load_hours_from_excel(book)
    IN  IF IsError(loaded) THEN loaded ELSE Str(<<"O", "K">>)

\* the button "Charger depuis l'Excel" with an uploaded file
ImportExcel ==
    /\ pc = "session"
    /\ \E book \in SessionWorkbooks :
          LET tables == ImportTables(book, hours_n, hours_n1)
          IN  /\ xls' = book
              /\ hours_n' = tables[1]
              /\ hours_n1' = tables[2]
              /\ import_msg' = ImportMessage(book)
    /\ copy_clicked' = FALSE
    /\ UNCHANGED <<use_n1, scalarsN, scalarsN1, otherVars>>
    /\ Compute

MaxSessionRows == 2

\* the row the editor appends
NewRow == Row(Str(<<"X">>), None, None)

\* what one edit in a data_editor can return: the last row deleted, a row
\* added, the Heures cell of the first row set
EditorResults(df) ==
    (IF df.rows # <<>>
     THEN {DataFrame(df.columns, SubSeq(df.rows, 1, Len(df.rows) - 1)),
           DataFrame(df.columns, [df.rows EXCEPT ![1]["Heures"] = Num(100)])}
     ELSE {})
    \cup (IF Len(df.rows) < MaxSessionRows
          THEN {DataFrame(df.columns, Append(df.rows, NewRow))} ELSE {})

\* an edit in the editor of table N (lines 508-518)
EditHoursN ==
    /\ pc = "session"
    /\ hours_n' \in EditorResults(hours_n) \ {hours_n}
    /\ import_msg' = None /\ xls' = None /\ copy_clicked' = FALSE
    /\ UNCHANGED <<hours_n1, use_n1, scalarsN, scalarsN1, otherVars>>
    /\ Compute

\* an edit in the editor of table N-1, shown while use_n1 (lines 526-536)
EditHoursN1 ==
    /\ pc = "session" /\ use_n1
    /\ hours_n1' \in EditorResults(hours_n1) \ {hours_n1}
    /\ import_msg' = None /\ xls' = None /\ copy_clicked' = FALSE
    /\ UNCHANGED <<hours_n, use_n1, scalarsN, scalarsN1, otherVars>>
    /\ Compute

\* several rows kept: the copy put in front of the old rows
CopiedTable_Merge(source, old) == DataFrame(source.columns, source.rows \o old.rows)

\* line 524: st.session_state["hours_n"].copy(), whatever hours_n1 held
CopiedTable(source, old) == source

\* the button "Copier le tableau N -> N-1", shown while use_n1 (lines 522-524)
CopyNToN1 ==
    /\ pc = "session" /\ use_n1
    /\ copy_clicked' = TRUE
    /\ hours_n1' = CopiedTable(hours_n, hours_n1)
    /\ import_msg' = None /\ xls' = None
    /\ UNCHANGED <<hours_n, use_n1, scalarsN, scalarsN1, otherVars>>
    /\ Compute

NextSession ==
    \/ SetScalarN \/ SetScalarN1 \/ ToggleN1
    \/ ImportExcel \/ EditHoursN \/ EditHoursN1 \/ CopyNToN1

Spec == InitSession /\ [][NextSession]_vars

\* build_summary_payload called on its own: the arguments are held in the
\* variables of the same names, the returned payload in out
PayloadResults ==
    {compute_year(DefaultCaN, DefaultAchatsN, DefaultHoursN, DefaultTauxHoraireN,
                  DefaultCoefRefactN),
     compute_year(Zero, DefaultAchatsN1, DefaultHoursN1, DefaultTauxHoraireN1,
                  DefaultCoefRefactN1)}

InitPayload ==
    /\ pc = "payload_in"
    /\ use_n1 \in BOOLEAN
    /\ ca_n \in {DefaultCaN, Zero}
    /\ achats_n = DefaultAchatsN
    /\ taux_horaire_n = DefaultTauxHoraireN
    /\ coef_refact_n = DefaultCoefRefactN
    /\ res_n \in PayloadResults
    /\ ca_n1 \in {None, DefaultCaN1}
    /\ achats_n1 \in {None, DefaultAchatsN1}
    /\ taux_horaire_n1 \in {None, DefaultTauxHoraireN1}
    /\ coef_refact_n1 = taux_horaire_n1
    /\ res_n1 \in PayloadResults \cup {None}
    /\ hours_n = None /\ hours_n1 = None
    /\ payload = None /\ import_msg = None /\ copy_clicked = FALSE
    /\ xls = None /\ pdf = None
    /\ IdleCalc

CallBuildPayload ==
    /\ pc = "payload_in"
    /\ out' = build_summary_payload(use_n1, ca_n, achats_n, taux_horaire_n,
                                    coef_refact_n, res_n, ca_n1, achats_n1,
                                    taux_horaire_n1, coef_refact_n1, res_n1)
    /\ pc' = "payload_out"
    /\ UNCHANGED <<in_df, in_ca, in_achats, in_taux, in_coef, xls, pdf, sessionVars>>

NextPayload == CallBuildPayload

\* the payload builder on its own arguments and inside the session
SpecPayload ==
    (InitPayload \/ InitSession) /\ [][NextPayload \/ NextSession]_vars

\* the pure functions on their own inputs and the session together
SpecResults ==
    (InitNorm \/ InitCalc \/ InitSession)
    /\ [][NextNorm \/ NextCalc \/ NextSession]_vars

-----------------------------------------------------------------------------
(* Properties of normalize_hours_df and compute_year *)

NumericOrMissing(x) == x.t \in {"num", "none"}

MissingOrZero(x) == IF x = None THEN Zero ELSE x

\* a sum written from the last element, independent of SumCol
RECURSIVE TotalOf(_)
TotalOf(nums) ==
    IF nums = <<>> THEN Zero
    ELSE Add(TotalOf(SubSeq(nums, 1, Len(nums) - 1)), nums[Len(nums)])

Reverse(s) == [i \in 1..Len(s) |-> s[Len(s) + 1 - i]]

\* the cell of a raw row is absent, missing or not a number
NotNumeric(df, r, col) ==
    \/ col \notin Range(df.columns)
    \/ r[col].t \in {"nan", "none"}
    \/ r[col].t = "str" /\ ~IsNumericText(r[col].s)

\* every row of a normalised table: numeric fields, billable = hours * coef
RowsNumeric(norm) ==
    \A i \in 1..Len(norm.rows) :
        LET o == norm.rows[i]
        IN  /\ IsNum(o["Heures"]) /\ IsNum(o["Coef_production"])
            /\ o["Heures_facturables"] = Mul(o["Heures"], o["Coef_production"])

\* against the raw table: 0.0 for what is not a number, numbers kept
Substituted(raw, norm) ==
    (raw # None /\ raw.rows # <<>>) =>
        /\ Len(norm.rows) = Len(raw.rows)
        /\ \A i \in 1..Len(raw.rows) : \A col \in {"Heures", "Coef_production"} :
               /\ NotNumeric(raw, raw.rows[i], col) => norm.rows[i][col] = Zero
               /\ (col \in Range(raw.columns) /\ IsNum(raw.rows[i][col]))
                      => norm.rows[i][col] = raw.rows[i][col]

WithoutBillable(df) ==
    IF df = None THEN None
    ELSE LET keep == SelectSeq(df.columns, LAMBDA c : c # "Heures_facturables")
         IN  DataFrame(keep, Project(df.rows, keep))

\* C5: with revenue zero (0 or missing) and the other scalars numeric or
\* missing, compute_year returns a result whose marginRate and varianceRate
\* are 0.0 and whose margin is -purchases.
C5_ZeroRevenueRates ==
    (/\ pc = "calc_out"
     /\ in_ca \in {None, Zero}
     /\ NumericOrMissing(in_achats) /\ NumericOrMissing(in_taux)
     /\ NumericOrMissing(in_coef))
    => /\ out.t = "res"
       /\ out.tx_marge = Zero
       /\ out.ecart_pct = Zero
       /\ out.marge = Sub(Zero, MissingOrZero(in_achats))

C5_Witness ==
    /\ pc = "calc_out"
    /\ in_ca = None /\ in_achats = Num(400) /\ in_taux = Num(55)
    /\ in_coef = Frac(23, 20)
    /\ out.t = "res" /\ out.marge = Num(-400)
    /\ out.tx_marge = Zero /\ out.ecart_pct = Zero /\ out.ecart # Zero

\* C6: for numeric (or missing) scalars compute_year returns margin =
\* revenue - purchases, totalHours = sum of hours, totalBillableHours = sum of
\* hours * coefficient, theoreticalFromPurchases = purchases * markup,
\* theoreticalFromHours = totalBillableHours * hourlyRate, theoreticalTotal =
\* their sum, variance = revenue - theoreticalTotal, and the same totals for
\* the rows in reverse order.
C6_YearFormulas ==
    (/\ pc = "calc_out"
     /\ NumericOrMissing(in_ca) /\ NumericOrMissing(in_achats)
     /\ NumericOrMissing(in_taux) /\ NumericOrMissing(in_coef))
    => LET ca == MissingOrZero(in_ca)
           achats == MissingOrZero(in_achats)
           taux == MissingOrZero(in_taux)
           coef == MissingOrZero(in_coef)
           rows == out.dfh.rows
           hours == [i \in 1..Len(rows) |-> rows[i]["Heures"]]
           billable == [i \in 1..Len(rows) |->
                           Mul(rows[i]["Heures"], rows[i]["Coef_production"])]
           rev == compute_year(in_ca, in_achats,
                               IF in_df = None THEN None
                               ELSE DataFrame(in_df.columns, Reverse(in_df.rows)),
                               in_taux, in_coef)
       IN  /\ out.t = "res"
           /\ out.marge = Sub(ca, achats)
           /\ out.heures = TotalOf(hours)
           /\ out.heures_fact = TotalOf(billable)
           /\ out.ca_theo_achats = Mul(achats, coef)
           /\ out.ca_theo_heures = Mul(out.heures_fact, taux)
           /\ out.ca_theo_total = Add(out.ca_theo_achats, out.ca_theo_heures)
           /\ out.ecart = Sub(ca, out.ca_theo_total)
           /\ rev.heures = out.heures
           /\ rev.heures_fact = out.heures_fact
           /\ rev.ca_theo_total = out.ca_theo_total
           /\ rev.ecart = out.ecart

C6_Witness ==
    /\ pc = "calc_out"
    /\ in_ca = Num(1000) /\ in_achats = Num(400) /\ in_taux = Num(55)
    /\ in_coef = Frac(23, 20)
    /\ in_df # None /\ Len(in_df.rows) = 2
    /\ in_df.rows[1]["Heures"] = Num(140) /\ in_df.rows[2]["Heures"] = Num(152)
    /\ out.heures = Num(292)
    /\ out.heures_fact = Frac(1057, 5)
    /\ out.ca_theo_achats = Num(460)
    /\ out.ca_theo_heures = Num(11627)
    /\ out.ecart = Num(-11087)

\* C7: every row of a normalised table has numeric hours and coefficient,
\* 0.0 where the raw value is missing or not a number, and billableHours =
\* hours * productionCoefficient of the same row; a supplied billableHours
\* column changes nothing.
C7_RowsNormalised ==
    /\ pc = "norm_out" =>
          /\ RowsNumeric(out)
          /\ Substituted(in_df, out)
          /\ out = normalize_hours_df(WithoutBillable(in_df))
    /\ (pc = "calc_out" /\ out.t = "res") =>
          /\ RowsNumeric(out.dfh)
          /\ Substituted(in_df, out.dfh)
    /\ pc = "session" =>
          /\ RowsNumeric(res_n.dfh)
          /\ Substituted(hours_n, res_n.dfh)
          /\ res_n1 # None =>
                 /\ RowsNumeric(res_n1.dfh)
                 /\ Substituted(hours_n1, res_n1.dfh)

C7_Witness ==
    /\ pc = "norm_out"
    /\ in_df # None /\ Len(in_df.rows) = 2
    /\ "Heures_facturables" \in Range(in_df.columns)
    /\ in_df.rows[1]["Heures"] = Num(2)
    /\ in_df.rows[1]["Coef_production"] = Str(<<"1", "2">>)
    /\ in_df.rows[1]["Heures_facturables"] = Num(99)
    /\ in_df.rows[2]["Heures"] = Str(<<"x">>)
    /\ out.rows[1]["Heures_facturables"] = Num(24)
    /\ out.rows[2]["Heures"] = Zero

PlaceholderRow ==
    [c \in Range(OUT_COLS) |-> IF c = "Personne" THEN Str(<<>>) ELSE Zero]

IsEmptyInput(df) == df = None \/ df.rows = <<>>

\* C8: an empty or absent table normalises to exactly one row ("", 0.0, 0.0,
\* 0.0), so compute_year gives totalHours = 0 and totalBillableHours = 0; a
\* table of n > 0 rows normalises to n rows, row i from raw row i.
C8_EmptyPlaceholder ==
    /\ pc = "norm_out" =>
          IF IsEmptyInput(in_df) THEN out.rows = <<PlaceholderRow>>
          ELSE /\ Len(out.rows) = Len(in_df.rows)
               /\ \A i \in 1..Len(in_df.rows) :
                      out.rows[i] =
                          normalize_hours_df(
                              DataFrame(in_df.columns, <<in_df.rows[i]>>)).rows[1]
    /\ (pc = "calc_out" /\ out.t = "res") =>
          IF IsEmptyInput(in_df)
          THEN /\ out.dfh.rows = <<PlaceholderRow>>
               /\ out.heures = Zero /\ out.heures_fact = Zero
          ELSE Len(out.dfh.rows) = Len(in_df.rows)

C8_Witness ==
    /\ pc = "calc_out"
    /\ in_df # None /\ in_df.rows = <<>>
    /\ out.t = "res"
    /\ out.dfh.rows = <<PlaceholderRow>>
    /\ out.heures = Zero

\* C9: person is text in every normalised row, and a row whose person is
\* absent (a missing cell of a non-empty table) gets the empty string.
C9_AbsentPersonneEmpty ==
    (pc = "norm_out" /\ ~IsEmptyInput(in_df) /\ "Personne" \in Range(in_df.columns))
    => \A i \in 1..Len(in_df.rows) :
           /\ out.rows[i]["Personne"].t = "str"
           /\ in_df.rows[i]["Personne"].t \in {"nan", "none"}
                  => out.rows[i]["Personne"] = Str(<<>>)

\* C10: compute_year never raises: it returns a result, and a scalar that is
\* missing or not a number counts as 0.0.
C10_NeverRaises ==
    pc = "calc_out" =>
        /\ out.t = "res"
        /\ (~IsNum(in_ca) /\ ~IsNum(in_achats)) => out.marge = Zero

-----------------------------------------------------------------------------
(* Properties of the import in the session *)

\* the run attempted an import and the file is one that must be refused
ImportRefused(book) ==
    /\ book # None
    /\ \/ ~HasSheet(book, "N") \/ BadSheet(book, "N") \/ BadSheet(book, "N-1")

ImportAccepted(book) ==
    /\ book # None
    /\ HasSheet(book, "N") /\ ~BadSheet(book, "N") /\ ~BadSheet(book, "N-1")

\* the three required columns of a sheet, each read under the header cell
\* that carries its name
RequiredColumnsOf(sheet) ==
    DataFrame(REQUIRED_COLS,
              [i \in 1..Len(sheet.rows) |->
                  [c \in Range(REQUIRED_COLS) |->
                      sheet.rows[i][CHOOSE j \in 1..Len(sheet.columns) :
                                        sheet.columns[j].word = c]]])

\* C2: a run whose import is refused (sheet N absent, or sheet N or a present
\* sheet N-1 lacking a required column) leaves hours_n and hours_n1 as they
\* were, whatever imports, copies and edits came before.
C2_FailedImportNoChange ==
    [][(pc = "session" /\ ImportRefused(xls'))
           => (/\ import_msg'.t = "error"
               /\ hours_n' = hours_n /\ hours_n1' = hours_n1)]_vars

\* a refused file with a valid sheet N and an invalid sheet N-1, after an edit
C2_Witness ==
    /\ pc = "session" /\ xls # None
    /\ HasSheet(xls, "N") /\ ~BadSheet(xls, "N") /\ BadSheet(xls, "N-1")
    /\ import_msg.t = "error"
    /\ hours_n.rows # <<>> /\ hours_n.rows[1]["Heures"] = Num(100)
    /\ hours_n # RequiredColumnsOf(xls.sheets["N"])

\* C4: a run whose import is accepted replaces hours_n by the three required
\* columns of sheet N; hours_n1 is replaced by sheet N-1 when the file has
\* one and is left unchanged otherwise; use_n1 plays no part.
C4_ImportReplaces ==
    [][(pc = "session" /\ ImportAccepted(xls'))
           => (/\ hours_n' = RequiredColumnsOf(xls'.sheets["N"])
               /\ hours_n1' = IF HasSheet(xls', "N-1")
                              THEN RequiredColumnsOf(xls'.sheets["N-1"])
                              ELSE hours_n1)]_vars

\* an accepted file without sheet N-1, imported while N-1 is disabled
C4_Witness ==
    /\ pc = "session" /\ xls # None /\ ~use_n1
    /\ HasSheet(xls, "N") /\ ~HasSheet(xls, "N-1")
    /\ import_msg = Str(<<"O", "K">>)
    /\ hours_n = RequiredColumnsOf(xls.sheets["N"])
    /\ hours_n.rows[1]["Heures"] = Num(101)
    /\ hours_n1 = DefaultHoursN1

-----------------------------------------------------------------------------
(* Properties of the payload *)

YearBlock(ca, achats, taux, coef, res) ==
    [ca |-> ca, achats |-> achats, taux_horaire |-> taux, coef_refact |-> coef,
     res |-> res]

\* a payload against the arguments it was built from
PayloadAgrees(p) ==
    /\ p.use_n1 <=> (use_n1 /\ res_n1 # None)
    /\ p.N1 # None <=> p.use_n1
    /\ p.N = YearBlock(ca_n, achats_n, taux_horaire_n, coef_refact_n, res_n)
    /\ p.use_n1 => p.N1 = YearBlock(ca_n1, achats_n1, taux_horaire_n1,
                                    coef_refact_n1, res_n1)

\* C11: in every payload the use_n1 flag is true exactly when the prior year
\* was requested and a prior-year result was supplied, the N-1 block is
\* present exactly when the flag is true, and the N block carries the supplied
\* year-N inputs and result as they are.
C11_PayloadFlag ==
    /\ pc = "payload_out" => PayloadAgrees(out)
    /\ pc = "session" => PayloadAgrees(payload)

\* the prior year requested without a result, and a year-N result that was
\* not computed from the year-N inputs passed along
C11_Witness ==
    /\ pc = "payload_out"
    /\ use_n1 /\ res_n1 = None
    /\ ca_n = Zero /\ res_n.marge = Num(150000)
    /\ ~out.use_n1 /\ out.N1 = None
    /\ out.N.res = res_n

-----------------------------------------------------------------------------
(* Properties of the session: independence of the years, copy, freshness *)

inputsN == <<ca_n, achats_n, taux_horaire_n, coef_refact_n, hours_n>>

inputsN1 == <<use_n1, ca_n1, achats_n1, taux_horaire_n1, coef_refact_n1, hours_n1>>

\* C12: the N-1 result depends on the N-1 inputs and hours_n1 only: a run
\* that changes hours_n or year-N scalars and none of the N-1 inputs leaves
\* the N-1 result as it was; likewise the N result does not move when only
\* N-1 inputs (hours_n1 among them) change.
C12_YearsIndependent ==
    [][pc = "session" =>
          /\ inputsN1' = inputsN1 => res_n1' = res_n1
          /\ inputsN' = inputsN => res_n' = res_n]_vars

\* N-1 enabled, the two tables and the two results apart
C12_Witness ==
    /\ pc = "session" /\ use_n1
    /\ hours_n # DefaultHoursN /\ hours_n1 = DefaultHoursN1
    /\ hours_n.rows # <<>> /\ hours_n.rows[1]["Heures"] = Num(100)
    /\ res_n.heures = Num(240)
    /\ res_n1 # None /\ res_n1.heures = Num(280)

\* C13: the copy replaces hours_n1 by exactly the rows of hours_n and leaves
\* hours_n alone; it happens only while N-1 is enabled; and a run that is
\* neither a copy nor an import changes at most one of the two tables.
C13_CopyReplaces ==
    [][pc = "session" =>
          /\ copy_clicked' =>
                /\ use_n1 /\ use_n1'
                /\ hours_n1' = hours_n
                /\ hours_n' = hours_n
          /\ (~copy_clicked' /\ xls' = None) =>
                (hours_n' = hours_n \/ hours_n1' = hours_n1)]_vars

\* after a copy of a table N that differs from the default N-1 table
C13_Witness ==
    /\ pc = "session" /\ copy_clicked /\ use_n1
    /\ Len(hours_n.rows) = 1
    /\ hours_n1 = hours_n
    /\ hours_n1 # DefaultHoursN1
    /\ res_n1.heures = res_n.heures

\* C14: at the end of every run the year-N result is compute_year of the
\* current hours_n and scalars, the N-1 result exists exactly when N-1 is
\* enabled and is then compute_year of the current hours_n1 and N-1 scalars,
\* and the payload carries these results.
C14_ResultsFresh ==
    pc = "session" =>
        /\ res_n = compute_year(ca_n, achats_n, hours_n, taux_horaire_n, coef_refact_n)
        /\ res_n1 # None <=> use_n1
        /\ use_n1 => res_n1 = compute_year(ca_n1, achats_n1, hours_n1,
                                           taux_horaire_n1, coef_refact_n1)
        /\ payload.N.res = res_n
        /\ payload.use_n1 = use_n1
        /\ use_n1 => payload.N1.res = res_n1

\* the run of an accepted import of both sheets, N-1 enabled
C14_Witness ==
    /\ pc = "session" /\ use_n1
    /\ xls # None /\ import_msg = Str(<<"O", "K">>)
    /\ HasSheet(xls, "N-1")
    /\ res_n.heures = Num(101)
    /\ res_n1.heures = Num(201)
    /\ payload.N1.res.heures = Num(201)

====
